---- MODULE Spec2Model ----
(***************************************************************************)
(* RSA accumulator (src/src/accumulator.rs) and its hashing helpers        *)
(* (src/src/hash.rs) as a state machine over a small group of unknown      *)
(* order.  The accumulator value is the pair (root, set); every method of  *)
(* the Static/Dynamic/Universal/Batched traits is an operator over a       *)
(* record self = [root, set], and every mutator is an action.              *)
(***************************************************************************)
EXTENDS Integers, Sequences, FiniteSets, TLC

(***************************************************************************)
(* Public parameters produced by setup (T::generate_primes): the modulus   *)
(* is a product of two safe primes, 7 = 2*3+1 and 11 = 2*5+1, and the      *)
(* generator 4 generates the quadratic residues, a subgroup of order 15.   *)
(***************************************************************************)
N == 77

G == 4

\* The odd primes a caller accumulates.  31 = 2*15 + 1 is congruent to 1
\* modulo the order of G; 7 and 11 are coprime to the order.
Primes == {7, 11, 31}

\* Size bounds of the explored behaviours.
MaxSet == 2387

MaxBatch == 3

\* Width of the model digest (all digest values are below DigestSpace) and
\* of its leading part read by hash_prime (values below PrimeSpace).
DigestSpace == 256

PrimeSpace == 16

\* Encodings of Option and of an abort (panic) for integer results.
None == -1

Panic == -2

(***************************************************************************)
(* Big-integer arithmetic used by the accumulator.                         *)
(***************************************************************************)
RECURSIVE modpow(_, _, _)
\* BigUint::modpow: (b ^ e) % n for an unsigned exponent.
modpow(b, e, n) ==
    IF e = 0 THEN 1 % n
    ELSE LET h == modpow(b, e \div 2, n)
             s == (h * h) % n
         IN  IF e % 2 = 1 THEN (s * (b % n)) % n ELSE s

RECURSIVE gcd(_, _)
\* Integer::gcd
gcd(a, b) == IF b = 0 THEN a ELSE gcd(b, a % b)

RECURSIVE extended_gcd(_, _)
\* ExtendedGcd::extended_gcd(x, y) = <<g, a, b>> with a*x + b*y = g.
extended_gcd(x, y) ==
    IF y = 0 THEN <<x, 1, 0>>
    ELSE LET r == extended_gcd(y, x % y)
         IN  <<r[1], r[3], r[2] - (x \div y) * r[3]>>

\* ModInverse::mod_inverse: None iff v is not invertible modulo n.
mod_inverse(v, n) ==
    LET e == extended_gcd(v % n, n)
    IN  IF e[1] # 1 THEN None ELSE e[2] % n

\* math::modpow_uint_int: signed exponent through the inverse of the base.
modpow_uint_int(b, e, n) ==
    IF e >= 0 THEN modpow(b, e, n)
    ELSE LET inv == mod_inverse(b, n)
         IN  IF inv = None THEN None ELSE modpow(inv, -e, n)

\* math::shamir_trick: an xy-th root from an x-th and a y-th root.
shamir_trick(w_x, w_y, x, y, n) ==
    LET e == extended_gcd(x, y)
        l == modpow_uint_int(w_x, e[3], n)
        r == modpow_uint_int(w_y, e[2], n)
    IN  IF e[1] # 1 THEN None
        ELSE IF l = None \/ r = None THEN Panic
        ELSE (l * r) % n

(***************************************************************************)
(* src/src/hash.rs.  A byte string is a sequence of naturals.              *)
(***************************************************************************)
RECURSIVE DigestFrom(_, _)
DigestFrom(h, bytes) ==
    IF bytes = <<>> THEN h
    ELSE DigestFrom((21 * (h + Head(bytes)) + 127) % DigestSpace, Tail(bytes))

\* D::digest(input): a fixed mixing function standing for Blake2b.
Digest(bytes) == DigestFrom(0, bytes)

\* rsa::prime::probably_prime
probably_prime(y) == y >= 2 /\ \A d \in 2..(y - 1) : y % d # 0

RECURSIVE hash_prime_loop(_)
hash_prime_loop(y) ==
    IF probably_prime(y) THEN y
    ELSE hash_prime_loop(Digest(<<y>>) \div (DigestSpace \div PrimeSpace))

\* hash_prime: the leading part of the digest, re-hashed until it is prime.
hash_prime(input) ==
    hash_prime_loop(Digest(input) \div (DigestSpace \div PrimeSpace))

\* hash_group without the reduction modulo n.
hash_group_unreduced(input, n) == Digest(input)

\* hash_group: the whole digest reduced modulo n.
hash_group(input, n) == Digest(input) % n

(***************************************************************************)
(* proofs::ni_poe_prove / ni_poe_verify (proof of exponentiation u^x = w). *)
(***************************************************************************)
ni_poe_prove(x, u, w, n) ==
    LET l == hash_prime(<<x, u, w>>)
    IN  modpow(u, x \div l, n)

ni_poe_verify(x, u, w, q, n) ==
    LET l == hash_prime(<<x, u, w>>)
        r == x % l
    IN  (modpow(q, l, n) * modpow(u, r, n)) % n = w

(***************************************************************************)
(* proofs::ni_poke2_prove / ni_poke2_verify (knowledge of a possibly       *)
(* negative exponent x with u^x = w).  A proof is the tuple <<z, Q, r>>.   *)
(***************************************************************************)
\* Floor division and the remainder in [0, l) of a signed x.
div_floor(x, l) == IF x >= 0 THEN x \div l ELSE -((-x + l - 1) \div l)

mod_floor(x, l) == x - l * div_floor(x, l)

ni_poke2_prove(x, u, w, n) ==
    LET g     == hash_group(<<u, w>>, n)
        z     == modpow_uint_int(g, x, n)
        l     == hash_prime(<<u, w, z>>)
        alpha == Digest(<<u, w, z, l>>)
        base  == (u * modpow(g, alpha, n)) % n
        q     == modpow_uint_int(base, div_floor(x, l), n)
    IN  IF z = None \/ q = None THEN <<Panic, Panic, 0>>
        ELSE <<z, q, mod_floor(x, l)>>

ni_poke2_verify(u, w, pi, n) ==
    LET g     == hash_group(<<u, w>>, n)
        z     == pi[1]
        q     == pi[2]
        r     == pi[3]
        l     == hash_prime(<<u, w, z>>)
        alpha == Digest(<<u, w, z, l>>)
        base  == (u * modpow(g, alpha, n)) % n
    IN  /\ 0 <= r
        /\ r < l
        /\ (modpow(q, l, n) * modpow(base, r, n)) % n
               = (w * modpow(z, alpha, n)) % n

(***************************************************************************)
(* impl StaticAccumulator / DynamicAccumulator / UniversalAccumulator /    *)
(* BatchedAccumulator for Accumulator.  self is the record [root, set];    *)
(* g and n are fixed by setup.  A mutator yields the new self together     *)
(* with what it returns.                                                   *)
(***************************************************************************)
\* The state check of the debug assertions: g^set mod n == root.
I1(self) == modpow(G, self.set, N) = self.root

\* add that leaves set as it was.
add_keeps_set(self, x) ==
    [root |-> modpow(self.root, x, N), set |-> self.set]

\* add that raises g, not the current root, to x.
add_from_generator(self, x) ==
    [root |-> modpow(G, x, N), set |-> self.set * x]

\* Accumulator::add
add(self, x) ==
    [root |-> modpow(self.root, x, N), set |-> self.set * x]

\* mem_wit_create without the division of set by x.
mem_wit_create_whole_set(self, x) == modpow(G, self.set, N)

\* Accumulator::mem_wit_create
mem_wit_create(self, x) == modpow(G, self.set \div x, N)

\* Accumulator::ver_mem
ver_mem(self, w, x) == modpow(w, x, N) = self.root

\* del that divides set and leaves root as it was.
del_keeps_root(self, x) ==
    LET s == self.set \div x
    IN  IF s = self.set
        THEN [self |-> self, ret |-> "None"]
        ELSE [self |-> [root |-> self.root, set |-> s], ret |-> "Some"]

\* Accumulator::del
del(self, x) ==
    LET s == self.set \div x
    IN  IF s = self.set
        THEN [self |-> self, ret |-> "None"]
        ELSE [self |-> [root |-> modpow(G, s, N), set |-> s], ret |-> "Some"]

\* Accumulator::non_mem_wit_create
non_mem_wit_create(self, x) ==
    LET e == extended_gcd(x, self.set)
    IN  [d |-> modpow_uint_int(G, e[2], N), b |-> e[3]]

\* ver_non_mem that drops the sign of the coefficient b.
ver_non_mem_unsigned(self, w, x) ==
    LET a_b == modpow(self.root, IF w.b < 0 THEN -w.b ELSE w.b, N)
        d_x == modpow(w.d, x, N)
    IN  IF (d_x * a_b) % N = G THEN "true" ELSE "false"

\* Accumulator::ver_non_mem; the expect on the signed power can abort.
ver_non_mem(self, w, x) ==
    LET a_b == modpow_uint_int(self.root, w.b, N)
        d_x == modpow(w.d, x, N)
    IN  IF a_b = None THEN "panic"
        ELSE IF (d_x * a_b) % N = G THEN "true" ELSE "false"

RECURSIVE product(_)
\* The x_star loops of the batched operations.
product(xs) == IF xs = <<>> THEN 1 ELSE Head(xs) * product(Tail(xs))

\* batch_add that proves from the new root instead of the saved old one.
batch_add_proves_from_new_root(self, xs) ==
    LET x_star == product(xs)
        new    == [root |-> modpow(self.root, x_star, N),
                   set  |-> self.set * x_star]
    IN  [self |-> new,
         proof |-> ni_poe_prove(x_star, new.root, new.root, N)]

\* batch_add that updates root and leaves set as it was.
batch_add_keeps_set(self, xs) ==
    LET x_star == product(xs)
    IN  [self  |-> [root |-> modpow(self.root, x_star, N), set |-> self.set],
         proof |-> ni_poe_prove(x_star, self.root,
                                modpow(self.root, x_star, N), N)]

\* Accumulator::batch_add
batch_add(self, xs) ==
    LET x_star == product(xs)
        new    == [root |-> modpow(self.root, x_star, N),
                   set  |-> self.set * x_star]
    IN  [self |-> new,
         proof |-> ni_poe_prove(x_star, self.root, new.root, N)]

\* Accumulator::ver_batch_add
ver_batch_add(self, w, root, xs) ==
    ni_poe_verify(product(xs), root, self.root, w, N)

RECURSIVE batch_del_loop(_, _)
\* The for loop of batch_del over the pairs after the first: st carries
\* new_root, x_star and self.set; a failed shamir_trick unwrap ends it.
batch_del_loop(st, pairs) ==
    IF pairs = <<>> THEN st
    ELSE LET xi == Head(pairs)[1]
             wi == Head(pairs)[2]
             r  == shamir_trick(st.new_root, wi, st.x_star, xi, N)
         IN  IF r = None \/ r = Panic
             THEN [st EXCEPT !.panic = TRUE]
             ELSE batch_del_loop([panic    |-> FALSE,
                                  new_root |-> r,
                                  x_star   |-> st.x_star * xi,
                                  set      |-> st.set \div xi],
                                 Tail(pairs))

\* Accumulator::batch_del
batch_del(self, pairs) ==
    IF pairs = <<>> THEN [self |-> self, ret |-> "None", proof |-> 0]
    ELSE LET st == batch_del_loop([panic    |-> FALSE,
                                   new_root |-> Head(pairs)[2],
                                   x_star   |-> Head(pairs)[1],
                                   set      |-> self.set],
                                  Tail(pairs))
         IN  IF st.panic
             THEN [self  |-> [root |-> self.root, set |-> st.set],
                   ret   |-> "panic", proof |-> 0]
             ELSE [self  |-> [root |-> st.new_root, set |-> st.set],
                   ret   |-> "Some",
                   proof |-> ni_poe_prove(st.x_star, st.new_root, self.root, N)]

\* Accumulator::ver_batch_del
ver_batch_del(self, w, root, xs) ==
    ni_poe_verify(product(xs), self.root, root, w, N)

\* Accumulator::non_mem_wit_create_star; pi = <<d, v, z, Q, r, pi_g>>, or
\* <<Panic>> when one of its expects fails.
non_mem_wit_create_star(self, x) ==
    LET e    == extended_gcd(x, self.set)
        d    == modpow_uint_int(G, e[2], N)
        v    == modpow_uint_int(self.root, e[3], N)
        pi_d == ni_poke2_prove(e[3], self.root, v, N)
        vi   == mod_inverse(v, N)
        k    == (G * vi) % N
    IN  IF d = None \/ v = None THEN <<Panic>>
        ELSE IF pi_d[1] = Panic \/ vi = None THEN <<Panic>>
        ELSE <<d, v, pi_d[1], pi_d[2], pi_d[3], ni_poe_prove(x, d, k, N)>>

\* ver_non_mem_star that checks the NI-PoE against g * v instead of
\* g * v^-1.
ver_non_mem_star_without_inverse(self, x, pi) ==
    LET d  == pi[1]
        v  == pi[2]
        k  == (G * v) % N
    IN  IF ~ni_poke2_verify(self.root, v, <<pi[3], pi[4], pi[5]>>, N) THEN "false"
        ELSE IF mod_inverse(v, N) = None THEN "panic"
        ELSE IF ~ni_poe_verify(x, d, k, pi[6], N) THEN "false"
        ELSE "true"

\* Accumulator::ver_non_mem_star; the expect on the inverse of v can abort.
ver_non_mem_star(self, x, pi) ==
    LET d  == pi[1]
        v  == pi[2]
        vi == mod_inverse(v, N)
        k  == (G * vi) % N
    IN  IF ~ni_poke2_verify(self.root, v, <<pi[3], pi[4], pi[5]>>, N) THEN "false"
        ELSE IF vi = None THEN "panic"
        ELSE IF ~ni_poe_verify(x, d, k, pi[6], N) THEN "false"
        ELSE "true"

\* del_w_mem that replaces root and leaves set as it was.
del_w_mem_keeps_set(self, w, x) ==
    IF ~ver_mem(self, w, x)
    THEN [self |-> self, ret |-> "None"]
    ELSE [self |-> [root |-> w, set |-> self.set], ret |-> "Some"]

\* Accumulator::del_w_mem
del_w_mem(self, w, x) ==
    IF ~ver_mem(self, w, x)
    THEN [self |-> self, ret |-> "None"]
    ELSE [self |-> [root |-> w, set |-> self.set \div x], ret |-> "Some"]

RECURSIVE root_factor(_, _, _)
\* math::root_factor on a non-empty list: the witnesses of the left half
\* from the base g^(product of the right half), those of the right half
\* from g^(product of the left half); a single prime has the witness g.
root_factor(g, primes, n) ==
    IF Len(primes) = 1 THEN <<g>>
    ELSE LET m == Len(primes) \div 2
             L == SubSeq(primes, 1, m)
             R == SubSeq(primes, m + 1, Len(primes))
         IN  root_factor(modpow(g, product(R), n), L, n)
                 \o root_factor(modpow(g, product(L), n), R, n)

\* create_all_mem_wit that starts from the current root instead of g.
create_all_mem_wit_from_root(self, ps) == root_factor(self.root, ps, N)

\* Accumulator::create_all_mem_wit
create_all_mem_wit(self, ps) == root_factor(G, ps, N)

\* Accumulator::agg_mem_wit; the unwrap of shamir_trick can abort, and ok
\* tells whether the debug assertion w_xy^(xy) == root holds.
agg_mem_wit(self, w_x, w_y, x, y) ==
    LET w_xy == shamir_trick(w_x, w_y, x, y, N)
        xy   == x * y
    IN  IF w_xy = None \/ w_xy = Panic
        THEN [ret |-> "panic", w_xy |-> 0, pi |-> 0, ok |-> FALSE]
        ELSE [ret  |-> "Some",
              w_xy |-> w_xy,
              pi   |-> ni_poe_prove(xy, w_xy, self.root, N),
              ok   |-> modpow(w_xy, xy, N) = self.root]

\* Accumulator::ver_agg_mem_wit
ver_agg_mem_wit(self, w_xy, pi, x, y) ==
    ni_poe_verify(x * y, w_xy, self.root, pi, N)

\* Accumulator::mem_wit_x
mem_wit_x(self, other, w_x, w_y, x, y) == (w_x * w_y) % N

\* ver_mem_x without the test that x and y are coprime.
ver_mem_x_unchecked(self, other, pi, x, y) ==
    LET rhs_a == modpow(self.root, y, N)
        rhs_b == modpow(other, x, N)
    IN  modpow(pi, x * y, N) = (rhs_a * rhs_b) % N

\* Accumulator::ver_mem_x
ver_mem_x(self, other, pi, x, y) ==
    IF gcd(x, y) # 1 THEN FALSE
    ELSE LET rhs_a == modpow(self.root, y, N)
             rhs_b == modpow(other, x, N)
         IN  modpow(pi, x * y, N) = (rhs_a * rhs_b) % N

(***************************************************************************)
(* The state machine.  root and set are the fields of the accumulator;     *)
(* members is the caller's list of the primes it has accumulated (the xs   *)
(* of the tests); last records the latest call: its name, arguments,       *)
(* result and the (root, set) it started from.  Its field ok tells whether *)
(* the debug assertions of the call held: debug_assert! is compiled into   *)
(* debug builds only, where a call with ok = FALSE panics instead of       *)
(* returning.                                                              *)
(*                                                                         *)
(* pc is "run" while every call so far has respected the preconditions the *)
(* caller must guarantee (fresh distinct primes are added, members are     *)
(* deleted, with the witnesses the accumulator created), "misused" after a *)
(* mutator call that broke one, "queried" after a read-only call and       *)
(* "aborted" after a panic.  A behaviour is a sequence of well-formed      *)
(* mutator calls, then at most one ill-formed mutator call (a del of a     *)
(* prime that was not accumulated may be followed by adds, each of which   *)
(* may be followed by the del of the prime it added), then at most one     *)
(* read-only call: a read-only call takes &self and cannot influence the   *)
(* calls after it.                                                         *)
(***************************************************************************)
VARIABLES root, set, members, pc, last

vars == <<root, set, members, pc, last>>

Self == [root |-> root, set |-> set]

Old == [root |-> last.root0, set |-> last.set0]

NoCall ==
    [op |-> "setup", ret |-> "unit", ok |-> TRUE, x |-> 0, w |-> 0, b |-> 0,
     y |-> 0, wy |-> 0, other |-> 0,
     xs |-> <<>>, ws |-> <<>>, proof |-> 0, pi |-> <<>>,
     root0 |-> G, set0 |-> 1]

Call(op, ret) ==
    [NoCall EXCEPT !.op = op, !.ret = ret, !.root0 = root, !.set0 = set]

\* Values a caller may pass where a group element is expected without
\* having obtained them from the accumulator: 7 is not invertible.
Forged == {7, 9}

\* Values queried for (non-)membership: the primes, the even prime, and a
\* product of two of the primes.
Queries == Primes \cup {2, 77}

SeqsUpTo(S, k) == UNION {[1..m -> S] : m \in 0..k}

Range(f) == {f[i] : i \in DOMAIN f}

Distinct(f) == \A i, j \in DOMAIN f : f[i] = f[j] => i = j

\* Witnesses a caller can present for x: the one the accumulator creates,
\* any element that verifies, or a forged one.
Witnesses(x) ==
    {mem_wit_create(Self, x)}
        \cup {w \in 0..(N - 1) : ver_mem(Self, w, x)} \cup Forged

\* The witnesses the accumulator creates for the primes of xs.
CreatedSeq(xs) == [i \in DOMAIN xs |-> mem_wit_create(Self, xs[i])]

\* Witness lists for batch_del(xs): the created ones or, for a single
\* pair, a forged one.
WitnessSeqs(xs) ==
    {CreatedSeq(xs)} \cup {<<f>> : f \in IF Len(xs) = 1 THEN Forged ELSE {}}

\* The caller breaks no precondition: it deletes members, with the
\* witnesses the accumulator created.
LegitDel(x, w) == x \in members /\ w = mem_wit_create(Self, x)

LegitBatch(xs, ws) ==
    /\ Distinct(xs)
    /\ Range(xs) \subseteq members
    /\ ws = CreatedSeq(xs)

After(legit) == IF legit THEN "run" ELSE "misused"

\* Non-empty lists of pairwise distinct primes, as a caller passes them.
PrimeLists ==
    {ps \in SeqsUpTo(Primes, MaxBatch) : ps # <<>> /\ Distinct(ps)}

RECURSIVE AddAll(_, _)
\* add called for each element of xs in order.
AddAll(self, xs) ==
    IF xs = <<>> THEN self ELSE AddAll(add(self, Head(xs)), Tail(xs))

\* A second accumulator with the same n and g: setup followed by the adds
\* of one prime, or of 7 and 31.
Others ==
    {AddAll([root |-> G, set |-> 1], ps) :
        ps \in {qs \in PrimeLists : Len(qs) = 1} \cup {<<7, 31>>}}

\* Accumulator::setup
Init ==
    /\ root = G
    /\ set = 1
    /\ members = {}
    /\ pc = "run"
    /\ last = NoCall

\* A call that panics before it has changed the accumulator.
Abort(call) ==
    /\ pc' = "aborted"
    /\ last' = call
    /\ UNCHANGED <<root, set, members>>

\* A call that returns, leaving the accumulator as self.
Return(self, mem, call, to) ==
    /\ root' = self.root
    /\ set' = self.set
    /\ members' = mem
    /\ last' = call
    /\ pc' = to

\* add of a fresh prime, also after a del of a prime that was not
\* accumulated.
Add(x) ==
    /\ pc = "run" \/ (pc = "misused" /\ last.op = "del")
    /\ x \notin members
    /\ set * x <= MaxSet
    /\ Return(add(Self, x), members \cup {x},
              [Call("add", "unit") EXCEPT !.x = x, !.ok = I1(Self)], pc)

\* del of any prime, also of the prime just added after a del of a prime
\* that was not accumulated.
Del(x) ==
    /\ pc = "run" \/ (pc = "misused" /\ last.op = "add" /\ last.x = x)
    /\ LET r == del(Self, x)
       IN  Return(r.self,
                  IF r.ret = "Some" THEN members \ {x} ELSE members,
                  [Call("del", r.ret) EXCEPT !.x = x],
                  IF pc = "run" THEN After(x \in members) ELSE "misused")

DelWMem(x, w) ==
    /\ pc = "run"
    /\ LET r == del_w_mem(Self, w, x)
       IN  Return(r.self,
                  IF r.ret = "Some" THEN members \ {x} ELSE members,
                  [Call("del_w_mem", r.ret) EXCEPT !.x = x, !.w = w],
                  After(LegitDel(x, w)))

BatchAdd(xs) ==
    /\ pc = "run"
    /\ Distinct(xs)
    /\ Range(xs) \cap members = {}
    /\ set * product(xs) <= MaxSet
    /\ LET r == batch_add(Self, xs)
       IN  Return(r.self, members \cup Range(xs),
                  [Call("batch_add", "unit") EXCEPT
                       !.xs = xs, !.proof = r.proof],
                  "run")

BatchDel(xs, ws) ==
    /\ pc = "run"
    /\ LET r    == batch_del(Self, [i \in DOMAIN xs |-> <<xs[i], ws[i]>>])
           call == [Call("batch_del", r.ret) EXCEPT
                        !.xs = xs, !.ws = ws, !.proof = r.proof]
       IN  Return(r.self,
                  IF r.ret = "Some" THEN members \ Range(xs) ELSE members,
                  call,
                  IF r.ret = "panic" THEN "aborted"
                  ELSE After(LegitBatch(xs, ws)))

MemWitCreate(x) ==
    /\ pc = "run"
    /\ Return(Self, members,
              [Call("mem_wit_create", "unit") EXCEPT
                   !.x = x, !.w = mem_wit_create(Self, x),
                   !.ok = (I1(Self) /\ set % x = 0)],
              "queried")

\* create_all_mem_wit on a list the caller supplies.
CreateAllMemWit(ps) ==
    /\ pc = "run"
    /\ Return(Self, members,
              [Call("create_all_mem_wit", "unit") EXCEPT
                   !.xs = ps, !.ws = create_all_mem_wit(Self, ps)],
              "queried")

\* agg_mem_wit on the witnesses mem_wit_create gives for x and y.
AggMemWit(x, y) ==
    /\ pc = "run"
    /\ LET w_x  == mem_wit_create(Self, x)
           w_y  == mem_wit_create(Self, y)
           r    == agg_mem_wit(Self, w_x, w_y, x, y)
           call == [Call("agg_mem_wit", r.ret) EXCEPT
                        !.x = x, !.y = y, !.w = w_x, !.wy = w_y,
                        !.ws = <<r.w_xy>>, !.proof = r.pi, !.ok = r.ok]
       IN  IF r.ret = "panic" THEN Abort(call)
           ELSE Return(Self, members, call, "queried")

\* mem_wit_x for x in this accumulator and y accumulated in other, on the
\* witnesses the two accumulators create.
MemWitX(other, x, y) ==
    /\ pc = "run"
    /\ other.set % y = 0
    /\ LET w_x == mem_wit_create(Self, x)
           w_y == mem_wit_create(other, y)
       IN  Return(Self, members,
                  [Call("mem_wit_x", "unit") EXCEPT
                       !.x = x, !.y = y, !.w = w_x, !.wy = w_y,
                       !.other = other.root,
                       !.proof = mem_wit_x(Self, other.root, w_x, w_y, x, y)],
                  "queried")

\* Non-membership witnesses a caller can present for y: the created one,
\* or a forged one with a negative coefficient.
NonMemWitnesses(y) ==
    {non_mem_wit_create(Self, y), [d |-> 9, b |-> -1]}

VerNonMem(y, w) ==
    /\ pc \in {"run", "misused"}
    /\ LET ret  == ver_non_mem(Self, w, y)
           call == [Call("ver_non_mem", ret) EXCEPT
                        !.x = y, !.w = w.d, !.b = w.b]
       IN  IF ret = "panic" THEN Abort(call)
           ELSE Return(Self, members, call, "queried")

\* non_mem_wit_create_star; its expects can abort.
NonMemWitCreateStar(y) ==
    /\ pc = "run"
    /\ LET c == non_mem_wit_create_star(Self, y)
       IN  IF c[1] = Panic
           THEN Abort([Call("non_mem_wit_create_star", "panic") EXCEPT !.x = y])
           ELSE Return(Self, members,
                       [Call("non_mem_wit_create_star", "Some") EXCEPT
                            !.x = y, !.pi = c],
                       "queried")

\* Starred non-membership proofs a caller can present for y: the created
\* one (when its creation returns), or a forged one claiming v = 0.
StarProofs(y) ==
    LET c == non_mem_wit_create_star(Self, y)
    IN  (IF c[1] = Panic THEN {} ELSE {c}) \cup {<<1, 0, 1, 0, 0, 1>>}

VerNonMemStar(y, pi) ==
    /\ pc = "run"
    /\ LET ret  == ver_non_mem_star(Self, y, pi)
           call == [Call("ver_non_mem_star", ret) EXCEPT !.x = y, !.pi = pi]
       IN  IF ret = "panic" THEN Abort(call)
           ELSE Return(Self, members, call, "queried")

Next ==
    \/ \E x \in Primes : Add(x)
    \/ \E x \in Primes : Del(x)
    \/ /\ pc = "run"
       /\ \E x \in Primes : \E w \in Witnesses(x) : DelWMem(x, w)
    \/ \E xs \in SeqsUpTo(Primes, MaxBatch) : BatchAdd(xs)
    \/ /\ pc = "run"
       /\ \E xs \in SeqsUpTo(Primes, MaxBatch) :
             \E ws \in WitnessSeqs(xs) : BatchDel(xs, ws)
    \/ \E x \in Queries : MemWitCreate(x)
    \/ /\ pc \in {"run", "misused"}
       /\ \E y \in Queries : \E w \in NonMemWitnesses(y) : VerNonMem(y, w)
    \/ /\ pc = "run"
       /\ \E y \in Queries : \E pi \in StarProofs(y) : VerNonMemStar(y, pi)
    \/ \E y \in Queries : NonMemWitCreateStar(y)
    \/ \E ps \in PrimeLists : CreateAllMemWit(ps)
    \/ \E x \in Primes : \E y \in Primes : AggMemWit(x, y)
    \/ \E other \in Others : \E x \in Primes : \E y \in Primes :
          MemWitX(other, x, y)

Spec == Init /\ [][Next]_vars

(***************************************************************************)
(* hash_group applied to byte strings and moduli of the caller's choice:   *)
(* the empty string and strings of up to MaxInput bytes, and moduli below, *)
(* at and above the width of the digest.                                   *)
(***************************************************************************)
MaxInput == 2

Bytes == {0, 1, 128, 255}

Moduli ==
    {1, 2, 3, N, DigestSpace - 1, DigestSpace, DigestSpace + 1,
     DigestSpace * DigestSpace}

HashGroup(input, n) ==
    /\ pc = "run"
    /\ Return(Self, members,
              [Call("hash_group", "unit") EXCEPT
                   !.xs = input, !.x = n, !.w = hash_group(input, n)],
              "queried")

HashNext ==
    \E input \in SeqsUpTo(Bytes, MaxInput) : \E n \in Moduli :
        HashGroup(input, n)

HashSpec == Init /\ [][HashNext]_vars

(***************************************************************************)
(* Properties.                                                             *)
(***************************************************************************)
\* The latest call was a deletion of x that succeeded, x divided set when it
\* was made, and w is the witness mem_wit_create gave for x before it.
StaleAfterDelete ==
    /\ last.op \in {"del", "del_w_mem"}
    /\ last.ret = "Some"
    /\ last.set0 % last.x = 0
    /\ last.op = "del_w_mem" => last.w = mem_wit_create(Old, last.x)

\* The latest call was ver_non_mem(non_mem_wit_create(y), y) in a state
\* where I1 holds (set, a product of primes, is at least 1).
CreatedNonMemVerified ==
    /\ last.op = "ver_non_mem"
    /\ I1(Self)
    /\ set >= 1
    /\ [d |-> last.w, b |-> last.b] = non_mem_wit_create(Self, last.x)

\* The latest call was batch_del by a caller that has respected every
\* precondition, on pairwise distinct primes dividing set, each with the
\* witness g^(set/x_i) mod n.
BatchDelOfMembers ==
    /\ last.op = "batch_del"
    /\ pc = "run"
    /\ last.xs # <<>>
    /\ Distinct(last.xs)
    /\ \A i \in DOMAIN last.xs :
          /\ last.set0 % last.xs[i] = 0
          /\ last.ws[i] = modpow(G, last.set0 \div last.xs[i], N)

\* The latest call was batch_del with some x_i not coprime to the product
\* of the x's before it.
BatchDelNotCoprime ==
    /\ last.op = "batch_del"
    /\ \E i \in 2..Len(last.xs) :
          gcd(last.xs[i], product(SubSeq(last.xs, 1, i - 1))) # 1

\* C1: g^set mod n = root in the setup state and after every sequence of
\* add, del, batch_add, batch_del and del_w_mem calls on distinct primes in
\* which deletions are applied to members with the accumulator's witnesses.
C1_I1AfterEveryMutator == pc = "run" => I1(Self)

\* C2: where I1 holds and x divides set, mem_wit_create(x) is
\* g^(set/x) mod n and ver_mem accepts it for x.
C2_MembershipComplete ==
    (last.op = "mem_wit_create" /\ I1(Self) /\ set % last.x = 0)
        => /\ last.w = modpow(G, set \div last.x, N)
           /\ ver_mem(Self, last.w, last.x)

C2_Witness ==
    /\ last.op = "mem_wit_create"
    /\ I1(Self)
    /\ set % last.x = 0
    /\ last.x \in members
    /\ Cardinality(members) >= 2

\* C3 as stated: where I1 holds, ver_non_mem(non_mem_wit_create(y), y) is
\* true if and only if gcd(y, set) = 1.
C3_NonMembershipIffCoprime ==
    CreatedNonMemVerified => (last.ret = "true" <=> gcd(last.x, set) = 1)

\* C3 amended: where I1 holds, ver_non_mem(non_mem_wit_create(y), y) is
\* true if and only if g^gcd(y, set) = g mod n; in particular it is true
\* whenever gcd(y, set) = 1.
C3_NonMembershipIffFixed ==
    CreatedNonMemVerified
        => /\ last.ret = "true" <=> modpow(G, gcd(last.x, set), N) = G
           /\ gcd(last.x, set) = 1 => last.ret = "true"

C3_Witness ==
    /\ CreatedNonMemVerified
    /\ gcd(last.x, set) = 1
    /\ set > 1
    /\ last.b < 0
    /\ last.ret = "true"

\* C4: del(x) returns None and changes nothing when x does not divide set;
\* otherwise it returns Some with set' = set / x and root' = g^set' mod n.
C4_DelContract ==
    last.op = "del"
        => IF last.set0 % last.x # 0
           THEN last.ret = "None" /\ Self = Old
           ELSE /\ last.ret = "Some"
                /\ set = last.set0 \div last.x
                /\ root = modpow(G, set, N)

C6_BatchAddRoundTrip ==
    last.op = "batch_add"
        => LET x_star == product(last.xs)
               l      == hash_prime(<<x_star, last.root0, root>>)
           IN  /\ last.proof = modpow(last.root0, x_star \div l, N)
               /\ ver_batch_add(Self, last.proof, last.root0, last.xs)
               /\ \A q \in 0..(N - 1) :
                     ver_batch_add(Self, q, last.root0, last.xs)
                         <=> (modpow(q, l, N)
                                * modpow(last.root0, x_star % l, N)) % N = root

C6_Witness ==
    /\ last.op = "batch_add"
    /\ Len(last.xs) >= 2
    /\ last.set0 > 1
    /\ ver_batch_add(Self, last.proof, last.root0, last.xs)

\* C7: batch_del on pairwise distinct member primes with the witnesses
\* g^(set/x_i) returns a proof, sets root to r with r^(x_1 ... x_k) =
\* root_old mod n, and ver_batch_del(proof, root_old, xs) is true.
C7_BatchDelRoundTrip ==
    BatchDelOfMembers
        => /\ last.ret = "Some"
           /\ modpow(root, product(last.xs), N) = last.root0
           /\ ver_batch_del(Self, last.proof, last.root0, last.xs)

\* C8: every ver_* call returns true or false; none aborts.
C8_VerifiersNeverAbort ==
    last.op \in {"ver_non_mem", "ver_non_mem_star"}
        => last.ret \in {"true", "false"}

\* C9: when some x_i is not coprime to the product of the x's before it,
\* batch_del returns None and leaves root and set as they were.
C9_BatchDelAllOrNothing ==
    BatchDelNotCoprime => last.ret = "None" /\ Self = Old

\* C10: del_w_mem(w, x) returns None and changes nothing when w^x mod n is
\* not root; otherwise it returns Some with set' = set / x and root' = w.
C10_DelWMemContract ==
    last.op = "del_w_mem"
        => IF modpow(last.w, last.x, N) # last.root0
           THEN last.ret = "None" /\ Self = Old
           ELSE /\ last.ret = "Some"
                /\ set = last.set0 \div last.x
                /\ root = last.w

C10_Witness ==
    /\ last.op = "del_w_mem"
    /\ last.ret = "Some"
    /\ last.set0 > last.x
    /\ root = last.w

\* The product of the elements of xs other than the i-th.
ProductWithout(xs, i) ==
    product(SubSeq(xs, 1, i - 1)) * product(SubSeq(xs, i + 1, Len(xs)))

\* The latest call was create_all_mem_wit(ps) in a state where I1 holds and
\* set is the product of ps.
AllWitnessesOfTheSet ==
    /\ last.op = "create_all_mem_wit"
    /\ I1(Self)
    /\ set = product(last.xs)

\* C11: when ps enumerates the accumulated primes (set is the product of
\* ps and I1 holds), the i-th output of create_all_mem_wit(ps) is
\* g^(product of the p_j, j # i) mod n, in the order of ps, and ver_mem
\* accepts it for ps[i].
C11_CreateAllMemWit ==
    AllWitnessesOfTheSet
        => /\ Len(last.ws) = Len(last.xs)
           /\ \A i \in DOMAIN last.xs :
                 /\ last.ws[i] = modpow(G, ProductWithout(last.xs, i), N)
                 /\ ver_mem(Self, last.ws[i], last.xs[i])

C11_Witness ==
    /\ AllWitnessesOfTheSet
    /\ Len(last.xs) = 3
    /\ \A i \in DOMAIN last.xs : ver_mem(Self, last.ws[i], last.xs[i])

\* The latest call was agg_mem_wit(w_x, w_y, x, y) for distinct members x
\* and y with w_x = mem_wit_create(x) and w_y = mem_wit_create(y).
AggOfMembers ==
    /\ last.op = "agg_mem_wit"
    /\ last.x # last.y
    /\ {last.x, last.y} \subseteq members
    /\ set % last.x = 0
    /\ set % last.y = 0
    /\ last.w = mem_wit_create(Self, last.x)
    /\ last.wy = mem_wit_create(Self, last.y)

\* C12: for distinct members x and y with the witnesses mem_wit_create
\* gives, agg_mem_wit returns (w_xy, pi) with w_xy^(x*y) = root mod n (its
\* debug assertion holds) and ver_agg_mem_wit(w_xy, pi, x, y) is true.
C12_AggMemWitRoundTrip ==
    AggOfMembers
        => /\ last.ret = "Some"
           /\ last.ok
           /\ modpow(last.ws[1], last.x * last.y, N) = root
           /\ ver_agg_mem_wit(Self, last.ws[1], last.proof, last.x, last.y)

\* C12 restricted to states where I1 holds.
C12_AggMemWitRoundTripUnderI1 == I1(Self) => C12_AggMemWitRoundTrip

\* The latest call was mem_wit_x for x with a witness w_x valid in this
\* accumulator and y with a witness w_y valid in the other one.
CrossOfValidWitnesses ==
    /\ last.op = "mem_wit_x"
    /\ ver_mem(Self, last.w, last.x)
    /\ modpow(last.wy, last.y, N) = last.other

\* C13: with valid witnesses w_x for x here and w_y for y in the other
\* accumulator, ver_mem_x accepts mem_wit_x(other, w_x, w_y, x, y) when
\* gcd(x, y) = 1, and ver_mem_x rejects every pi when gcd(x, y) # 1.
C13_CrossMembership ==
    CrossOfValidWitnesses
        => IF gcd(last.x, last.y) = 1
           THEN /\ last.proof = (last.w * last.wy) % N
                /\ ver_mem_x(Self, last.other, last.proof, last.x, last.y)
           ELSE \A pi \in 0..(N - 1) :
                   ~ver_mem_x(Self, last.other, pi, last.x, last.y)

C13_Witness ==
    /\ CrossOfValidWitnesses
    /\ gcd(last.x, last.y) = 1
    /\ set > last.x
    /\ last.other # root
    /\ ver_mem_x(Self, last.other, last.proof, last.x, last.y)

C13_WitnessNotCoprime ==
    /\ CrossOfValidWitnesses
    /\ gcd(last.x, last.y) # 1

\* The latest call was non_mem_wit_create_star(x) in a state where I1 holds
\* (set, a product of primes, is at least 1) and gcd(x, set) = 1.
StarOfNonMember ==
    /\ last.op = "non_mem_wit_create_star"
    /\ I1(Self)
    /\ set >= 1
    /\ gcd(last.x, set) = 1

\* The Bezout coefficient b of set in non_mem_wit_create_star(x) is not
\* negative, or the group element hash_group derives as the NI-PoKE2
\* base from (root, v = root^b) is invertible modulo n.
StarChallengeUsable ==
    LET b == extended_gcd(last.x, set)[3]
        v == modpow_uint_int(root, b, N)
    IN  b >= 0 \/ gcd(hash_group(<<root, v>>, N), N) = 1

C15_InsertionOrderIrrelevant ==
    /\ last.op = "add"
          => /\ Self = add(Old, last.x)
             /\ \A y \in Primes : add(add(Old, y), last.x) = add(Self, y)
    /\ pc \in {"run", "misused"}
          => \A xs \in PrimeLists : \A ys \in PrimeLists :
                Range(xs) = Range(ys) => AddAll(Self, xs) = AddAll(Self, ys)

C15_Witness ==
    /\ last.op = "add"
    /\ Cardinality(members) >= 2
    /\ \E y \in members \ {last.x} :
          Self = add(add([root |-> G, set |-> 1], last.x), y)

\* C16: hash_group(input, n) is the value of the digest reduced modulo n,
\* so 0 <= h < n for every input and every n > 0, whether the digest is
\* wider or narrower than n.
C16_HashGroupInRange ==
    last.op = "hash_group"
        => /\ last.x > 0
           /\ 0 <= last.w
           /\ last.w < last.x
           /\ last.w <= last.x
           /\ (last.w - Digest(last.xs)) % last.x = 0
           /\ last.x > Digest(last.xs) => last.w = Digest(last.xs)

C16_Witness ==
    /\ last.op = "hash_group"
    /\ last.x > 1
    /\ last.x < Digest(last.xs)
    /\ last.w > 0
    /\ last.w < last.x

\* C17: add(x) from a state satisfying I1 sets set' = set * x and
\* root' = root^x mod n, the new state satisfies I1 and the debug assertion
\* of add holds; del and batch_add lead from a state satisfying I1 to a
\* state satisfying I1, so the assertion holds on every state reached by
\* add, del and batch_add alone.
C17_AddPreservesI1 ==
    /\ (last.op = "add" /\ I1(Old))
          => /\ set = last.set0 * last.x
             /\ root = modpow(last.root0, last.x, N)
             /\ I1(Self)
             /\ last.ok
    /\ (last.op \in {"del", "batch_add"} /\ I1(Old)) => I1(Self)

C17_Witness ==
    /\ last.op = "add"
    /\ I1(Old)
    /\ last.set0 > 1
    /\ last.ok
    /\ set = last.set0 * last.x
    /\ I1(Self)

\* add reached after a del of a prime that was not accumulated.
C17_WitnessAfterDel ==
    /\ last.op = "add"
    /\ pc = "misused"
    /\ last.ok
    /\ I1(Self)

\* C18: after batch_del succeeds on pairs of distinct member primes, set is
\* the old set divided by the product of every x_i, the first included,
\* and none of the deleted x_i divides it.
C18_BatchDelDividesSet ==
    (BatchDelOfMembers /\ last.ret = "Some")
        => /\ set = last.set0 \div product(last.xs)
           /\ \A i \in DOMAIN last.xs : set % last.xs[i] # 0

\* The latest call was a del_w_mem that returned Some from a state where
\* I1 holds.
DelWMemSucceeded ==
    /\ last.op = "del_w_mem"
    /\ last.ret = "Some"
    /\ I1(Old)

\* C19: whenever del_w_mem(w, x) returns Some from a state satisfying I1,
\* for any w and x accepted by ver_mem, the resulting state satisfies I1.
C19_DelWMemKeepsI1 == DelWMemSucceeded => I1(Self)

\* C19 restricted to x dividing set.
C19_DelWMemKeepsI1ForDivisors ==
    (DelWMemSucceeded /\ last.set0 % last.x = 0) => I1(Self)

\* C20: batch_add(xs) leaves the accumulator in the state reached by
\* add(x) for each x of xs in order; the empty list changes nothing.
C20_BatchAddIsRepeatedAdd ==
    last.op = "batch_add"
        => /\ Self = AddAll(Old, last.xs)
           /\ last.xs = <<>> => Self = Old

C20_Witness ==
    /\ last.op = "batch_add"
    /\ Len(last.xs) = MaxBatch
    /\ Self = AddAll(Old, last.xs)
    /\ Self # Old

C20_WitnessEmpty ==
    /\ last.op = "batch_add"
    /\ last.xs = <<>>
    /\ last.set0 > 1
    /\ Self = Old

\* C21: from a state satisfying I1, add(x) followed by del(x) returns Some
\* and restores the (root, set) the add started from.
C21_AddDelRoundTrip ==
    [][(last.op = "add" /\ I1(Old) /\ last'.op = "del" /\ last'.x = last.x)
          => (last'.ret = "Some" /\ root' = last.root0 /\ set' = last.set0)]_vars

\* C21 restricted to a set of at least 1 before the add.
C21_AddDelRoundTripOfProducts ==
    [][(last.op = "add" /\ I1(Old) /\ last.set0 >= 1
            /\ last'.op = "del" /\ last'.x = last.x)
          => (last'.ret = "Some" /\ root' = last.root0 /\ set' = last.set0)]_vars

====
